---- MODULE Spec2Model ----
(***************************************************************************)
(* hebi: the corridor map generator (src/src/maps/corridors.rs) and the    *)
(* snake's movement systems (src/src/main.rs).                             *)
(*                                                                         *)
(* Numbers.  A u32 is represented by the i32 that has the same bits, so a  *)
(* value of 2^31 or more appears as a negative integer: `as u32` of a      *)
(* negative i32 and a wrapping u32 subtraction keep the integer as it is,  *)
(* equality is plain equality and the unsigned order is U32Lt.             *)
(* wall_variance is the fraction self.wall_variance / VDen and one draw of *)
(* generator.gen::<f32>() is the fraction r / RDen with r in 0..RDen-1.    *)
(***************************************************************************)
EXTENDS Integers, Sequences, FiniteSets, TLC

\* Bounds of the parameter domain and of the random draws.
MaxWidth == 8
MaxHeight == 5
MaxCorridorWidth == 5
MaxCorridorHeight == 2
MaxOffset == 3
VDen == 2
RDen == 2
\* Bounds of the keyboard: keys held at once, and changes of the held keys.
MaxKeysHeld == 1
MaxKeyChanges == 2
\* Bound of the fixed-timestep runs within one frame.
MaxStepsPerFrame == 1

\* main.rs constants
GRID_WIDTH == 29
GRID_HEIGHT == 29
SEGMENTS == 7

VARIABLES
    self,                 \* the CorridorsMap parameters
    wrapped,              \* a u32 subtraction has wrapped: the build does not check overflow
    pc,                   \* position in get_map_data
    x,                    \* the sweep's column
    gap,
    blocked,
    cells,
    top_wall_heights,
    bottom_wall_heights,
    swept,                \* cells as the column sweep left them
    top_todo,             \* entries the post-pass iterators have not yielded yet
    bottom_todo,
    keyboard_input,       \* Res<Input<KeyCode>>: the keys held
    key_changes,          \* how often the held keys have changed
    stage,                \* the frame's stage
    polled,               \* snake_movement_input has run in this frame
    steps,                \* runs of the fixed-timestep set in this frame
    direction,            \* SnakeHead.direction
    next_direction,       \* SnakeHead.next_direction
    head,                 \* the head's GridPosition
    segments,             \* the segments' GridPositions, in the order of SnakeHead.segments
    crashed               \* assert!(grid_position.in_bounds()) has failed

mapvars == <<self, wrapped, pc, x, gap, blocked, cells, top_wall_heights,
             bottom_wall_heights, swept, top_todo, bottom_todo>>

snakevars == <<keyboard_input, key_changes, stage, polled, steps, direction, next_direction,
               head, segments, crashed>>

vars == <<mapvars, snakevars>>

Wall == "Wall"
Empty == "Empty"
SpawnUp == "Spawn(Up)"
SpawnDown == "Spawn(Down)"

NoCells == [k \in {} |-> Wall]
NoHeights == [k \in {} |-> 0]

\* HashMap::insert
Insert(m, k, v) == [kk \in (DOMAIN m) \cup {k} |-> IF kk = k THEN v ELSE m[kk]]

\* The unsigned order of two u32 values.
U32Lt(a, b) == IF (a < 0) = (b < 0) THEN a < b ELSE b < 0

\* i32 remainder: truncated division, the sign of the dividend.
Rem(a, b) == IF a >= 0 THEN a % b ELSE 0 - ((0 - a) % b)

\* impl Default for CorridorsMap, its wall_variance set to 0.0
DefaultMap ==
    [width |-> 34, height |-> 17, corridor_width |-> 3, corridor_height |-> 10,
     top_corridor_offset |-> 3, bottom_corridor_offset |-> 0, wall_variance |-> 0]

\* the parameter sets of the stated domain, within the bounds
CorridorsMap ==
    [width : 1..MaxWidth, height : 1..MaxHeight,
     corridor_width : 1..MaxCorridorWidth, corridor_height : 1..MaxCorridorHeight,
     top_corridor_offset : (0 - 1)..MaxOffset, bottom_corridor_offset : (0 - 1)..MaxOffset,
     wall_variance : 0..VDen]

\* The closure get_wall_height on a column without an entry, r the draw:
\* (corridor_height * (1 - wall_variance) + corridor_height * wall_variance * r) as u32
get_wall_height(r) ==
    (self.corridor_height * (VDen - self.wall_variance) * RDen
        + self.corridor_height * self.wall_variance * r) \div (VDen * RDen)

\* x == 0 || x == width - 1 || y == 0 || y == height - 1
IsBorder(cx, cy) ==
    cx = 0 \/ cx = self.width - 1 \/ cy = 0 \/ cy = self.height - 1

\* (x as i32 - offset) % (corridor_width as i32 + 1) == 0 && x > 2
OnCorridorColumn(cx, offset) ==
    Rem(cx - offset, self.corridor_width + 1) = 0 /\ cx > 2

\* x < width - corridor_width - 1, the subtraction wrapping
LeftOfLastCorridor(cx) == U32Lt(cx, self.width - self.corridor_width - 1)

\* The third operand of the top-wall conjunction is reached (and the top height
\* memoized) in column cx.
TopReached(cx) ==
    /\ \E cy \in 0..(self.height - 1) : ~IsBorder(cx, cy)
    /\ OnCorridorColumn(cx, self.top_corridor_offset)
    /\ LeftOfLastCorridor(cx)

TopWall(cx, cy, twh) == TopReached(cx) /\ cy < twh + 1

\* The bottom-wall conjunction is evaluated only for a cell the border and the
\* top wall did not already make a Wall.
BottomReached(cx, twh) ==
    /\ \E cy \in 0..(self.height - 1) : ~IsBorder(cx, cy) /\ ~TopWall(cx, cy, twh)
    /\ OnCorridorColumn(cx, self.bottom_corridor_offset)
    /\ LeftOfLastCorridor(cx)

BottomWall(cx, cy, twh, bwh) ==
    BottomReached(cx, twh) /\ cy > self.height - bwh - 2

\* The cell the sweep inserts at (cx, cy).
Classify(cx, cy, twh, bwh) ==
    IF IsBorder(cx, cy) \/ TopWall(cx, cy, twh) \/ (~TopWall(cx, cy, twh) /\ BottomWall(cx, cy, twh, bwh))
    THEN Wall ELSE Empty

\* width - corridor_width - 1 is evaluated in column cx and goes below zero.
Underflows(cx) ==
    /\ self.width - self.corridor_width - 1 < 0
    /\ \E cy \in 0..(self.height - 1) : ~IsBorder(cx, cy)
    /\ \/ OnCorridorColumn(cx, self.top_corridor_offset)
       \/ OnCorridorColumn(cx, self.bottom_corridor_offset)

\* ForceGap with the insert moved inside `if !previously_blocked`.
ForceGapOnDrawOnly(c, cx, isBlocked, g) ==
    IF isBlocked /\ cx > 0 /\ cx < self.width - 1 /\ ~blocked
    THEN Insert(c, <<cx, g>>, Empty) ELSE c

\* "Check for blocked columns": the forced gap cell.
ForceGap(c, cx, isBlocked, g) ==
    IF isBlocked /\ cx > 0 /\ cx < self.width - 1 THEN Insert(c, <<cx, g>>, Empty) ELSE c

\* One column of the sweep: the inner loop over y and the blocked-column check.
SweepColumn ==
    /\ pc = "sweep"
    /\ \E rt \in (IF TopReached(x) THEN 0..(RDen - 1) ELSE {0}) :
       \E rb \in (IF BottomReached(x, get_wall_height(rt)) THEN 0..(RDen - 1) ELSE {0}) :
        LET twh == get_wall_height(rt)
            bwh == get_wall_height(rb)
            column == [cy \in 0..(self.height - 1) |-> Classify(x, cy, twh, bwh)]
            isBlocked == \A cy \in 0..(self.height - 1) : column[cy] = Wall
            draws == isBlocked /\ x > 0 /\ x < self.width - 1 /\ ~blocked
            range == 1..(self.height - 2)
            filled == [k \in (DOMAIN cells) \cup ({x} \X (0..(self.height - 1))) |->
                          IF k[1] = x /\ k[2] \in 0..(self.height - 1) THEN column[k[2]] ELSE cells[k]]
        IN  \E g \in (IF draws THEN (IF range = {} THEN {gap} ELSE range) ELSE {gap}) :
              /\ gap' = g
              /\ blocked' = isBlocked
              /\ cells' = ForceGap(filled, x, isBlocked, g)
              /\ swept' = cells'
              /\ top_wall_heights' =
                    IF TopReached(x) THEN Insert(top_wall_heights, x, twh) ELSE top_wall_heights
              /\ bottom_wall_heights' =
                    IF BottomReached(x, twh) THEN Insert(bottom_wall_heights, x, bwh)
                    ELSE bottom_wall_heights
              /\ top_todo' = DOMAIN top_wall_heights'
              /\ bottom_todo' = DOMAIN bottom_wall_heights'
              /\ x' = x + 1
              \* gen_range panics on an empty range
              /\ pc' = IF draws /\ range = {} THEN "panicked"
                       ELSE IF x + 1 = self.width THEN "post_pass" ELSE "sweep"
    /\ wrapped' = (wrapped \/ Underflows(x))
    /\ UNCHANGED <<self, snakevars>>

\* The build checks overflow and width - corridor_width - 1 goes below zero.
SweepOverflow ==
    /\ pc = "sweep"
    /\ ~wrapped /\ Underflows(x)
    /\ pc' = "panicked"
    /\ UNCHANGED <<self, wrapped, x, gap, blocked, cells, top_wall_heights,
                   bottom_wall_heights, swept, top_todo, bottom_todo, snakevars>>

\* BottomNotch with the spawn on row height - 2.
BottomNotchSpawnLow(c, cx, wall_height) ==
    LET y == self.height - wall_height - 2
    IN  IF y = 0 \/ y = self.height - 1 THEN c
        ELSE Insert(Insert(Insert(Insert(c, <<cx - 1, y>>, Empty), <<cx, y>>, Empty),
                           <<cx + 1, y>>, Empty), <<cx + 1, self.height - 2>>, SpawnUp)

\* The body of the loop over bottom_wall_heights for the entry (cx, wall_height).
BottomNotch(c, cx, wall_height) ==
    LET y == self.height - wall_height - 2
    IN  IF y = 0 \/ y = self.height - 1 THEN c
        ELSE Insert(Insert(Insert(Insert(c, <<cx - 1, y>>, Empty), <<cx, y>>, Empty),
                           <<cx + 1, y>>, Empty), <<cx + 1, self.height - 3>>, SpawnUp)

\* The body of the loop over top_wall_heights for the entry (cx, wall_height).
TopNotch(c, cx, wall_height) ==
    LET y == wall_height + 1
    IN  IF y = 0 \/ y = self.height - 1 THEN c
        ELSE Insert(Insert(Insert(Insert(c, <<cx - 1, y>>, Empty), <<cx, y>>, Empty),
                           <<cx + 1, y>>, Empty), <<cx + 1, 2>>, SpawnDown)

\* One iteration of the first post-pass loop; the HashMap yields its entries in
\* an order the program does not control.
BottomPass ==
    /\ pc = "post_pass"
    /\ \E cx \in bottom_todo :
        /\ cells' = BottomNotch(cells, cx, bottom_wall_heights[cx])
        /\ bottom_todo' = bottom_todo \ {cx}
    /\ UNCHANGED <<self, wrapped, pc, x, gap, blocked, top_wall_heights,
                   bottom_wall_heights, swept, top_todo, snakevars>>

\* One iteration of the second post-pass loop.
TopPass ==
    /\ pc = "post_pass"
    /\ bottom_todo = {}
    /\ \E cx \in top_todo :
        /\ cells' = TopNotch(cells, cx, top_wall_heights[cx])
        /\ top_todo' = top_todo \ {cx}
    /\ UNCHANGED <<self, wrapped, pc, x, gap, blocked, top_wall_heights,
                   bottom_wall_heights, swept, bottom_todo, snakevars>>

\* get_map_data returns MapData { width, height, cells }.
Return ==
    /\ pc = "post_pass"
    /\ bottom_todo = {} /\ top_todo = {}
    /\ pc' = "done"
    /\ UNCHANGED <<self, wrapped, x, gap, blocked, cells, top_wall_heights,
                   bottom_wall_heights, swept, top_todo, bottom_todo, snakevars>>

\* ------------------------------------------------------------------ snake

KeyCodes == {"Left", "Down", "Up", "Right"}

\* Direction::opposite
opposite(d) ==
    CASE d = "Left" -> "Right"
      [] d = "Right" -> "Left"
      [] d = "Down" -> "Up"
      [] d = "Up" -> "Down"

\* Direction::vec
vec(d) ==
    CASE d = "Left" -> [x |-> 0 - 1, y |-> 0]
      [] d = "Right" -> [x |-> 1, y |-> 0]
      [] d = "Down" -> [x |-> 0, y |-> 0 - 1]
      [] d = "Up" -> [x |-> 0, y |-> 1]

\* (c as f32 + d) as u32: a float below zero casts to 0
AsU32(f) == IF f < 0 THEN 0 ELSE f

\* GridPosition::center: (GRID_WIDTH as f32 / 2.0) as u32
center == [x |-> GRID_WIDTH \div 2, y |-> GRID_HEIGHT \div 2]

\* GridPosition::in_bounds
in_bounds(p) == p.x < GRID_WIDTH /\ p.y < GRID_HEIGHT

\* snake_spawn: the head at the center heading Up, the segments behind it
snake_spawn ==
    /\ direction = "Up"
    /\ next_direction = "Up"
    /\ head = center
    /\ segments = [i \in 1..(SEGMENTS - 1) |->
                      [x |-> AsU32(vec(opposite("Up")).x * i + center.x),
                       y |-> AsU32(vec(opposite("Up")).y * i + center.y)]]
    /\ keyboard_input = {}
    /\ key_changes = 0
    /\ stage = "PreUpdate"
    /\ polled = FALSE
    /\ steps = 0
    /\ crashed = FALSE

\* The engine's keyboard update at the start of a frame: the held keys change or stay.
input_system ==
    /\ stage = "PreUpdate" /\ ~crashed
    /\ \/ UNCHANGED <<keyboard_input, key_changes>>
       \/ /\ key_changes < MaxKeyChanges
          /\ \E keys \in SUBSET KeyCodes :
               /\ Cardinality(keys) <= MaxKeysHeld
               /\ keys # keyboard_input
               /\ keyboard_input' = keys
          /\ key_changes' = key_changes + 1
    /\ stage' = "Update"
    /\ UNCHANGED <<polled, steps, direction, next_direction, head, segments, crashed, mapvars>>

\* The if-chain of snake_movement_input over pressed(Left), Down, Up, Right.
PressedDirection ==
    IF "Left" \in keyboard_input THEN "Left"
    ELSE IF "Down" \in keyboard_input THEN "Down"
    ELSE IF "Up" \in keyboard_input THEN "Up"
    ELSE IF "Right" \in keyboard_input THEN "Right"
    ELSE direction

\* Steer with the polled direction compared to next_direction's opposite.
SteerAgainstNext(d) == IF d # opposite(next_direction) THEN d ELSE next_direction

\* if direction != snake_head.direction.opposite() { next_direction = direction }
Steer(d) == IF d # opposite(direction) THEN d ELSE next_direction

\* snake_movement_input runs once in a frame's Update stage.
snake_movement_input ==
    /\ stage = "Update" /\ ~polled
    /\ next_direction' = Steer(PressedDirection)
    /\ polled' = TRUE
    /\ UNCHANGED <<keyboard_input, key_changes, stage, steps, direction, head, segments,
                   crashed, mapvars>>

\* SnakeHead::update_segment_positions: each segment takes the place of the one before it
update_segment_positions(head_position) ==
    [i \in DOMAIN segments |-> IF i = 1 THEN head_position ELSE segments[i - 1]]

\* snake_movement runs in the Update stage as often as the fixed timestep has elapsed.
snake_movement ==
    /\ stage = "Update"
    /\ steps < MaxStepsPerFrame
    /\ steps' = steps + 1
    /\ direction' = next_direction
    /\ segments' = update_segment_positions(head)
    /\ head' = [x |-> AsU32(head.x + vec(next_direction).x),
                y |-> AsU32(head.y + vec(next_direction).y)]
    /\ UNCHANGED <<keyboard_input, key_changes, stage, polled, next_direction, crashed, mapvars>>

\* grid_positioning runs in PostUpdate and asserts every GridPosition in bounds.
grid_positioning ==
    /\ stage = "Update" /\ polled
    /\ crashed' = ~(in_bounds(head) /\ \A i \in DOMAIN segments : in_bounds(segments[i]))
    /\ stage' = "PreUpdate"
    /\ polled' = FALSE
    /\ steps' = 0
    /\ UNCHANGED <<keyboard_input, key_changes, direction, next_direction, head, segments,
                   mapvars>>

\* ------------------------------------------------------------------ specifications

\* The locals of get_map_data before the sweep.
Enter(params) ==
    /\ self = params
    /\ wrapped = FALSE
    /\ pc = "sweep"
    /\ x = 0
    /\ gap = 1
    /\ blocked = FALSE
    /\ cells = NoCells
    /\ top_wall_heights = NoHeights
    /\ bottom_wall_heights = NoHeights
    /\ swept = NoCells
    /\ top_todo = {}
    /\ bottom_todo = {}

Init == snake_spawn /\ \E params \in CorridorsMap : Enter(params)

Next == SweepColumn \/ SweepOverflow \/ BottomPass \/ TopPass \/ Return

Spec == Init /\ [][Next]_vars

\* get_map_data on the default parameters with wall_variance 0.0
InitDefault == snake_spawn /\ Enter(DefaultMap)

NextDefault == SweepColumn \/ BottomPass \/ TopPass \/ Return

SpecDefault == InitDefault /\ [][NextDefault]_vars

\* The game loop after the startup stages; no map is being generated.
InitSnake == snake_spawn /\ Enter(DefaultMap)

NextSnake == input_system \/ snake_movement_input \/ snake_movement \/ grid_positioning

SpecSnake == InitSnake /\ [][NextSnake]_vars

\* ------------------------------------------------------------------ claims

Min(S) == CHOOSE m \in S : \A n \in S : m <= n

\* The first post-pass loop over the entries todo, in ascending column order.
RECURSIVE BottomInOrder(_, _)
BottomInOrder(c, todo) ==
    IF todo = {} THEN c
    ELSE BottomInOrder(BottomNotch(c, Min(todo), bottom_wall_heights[Min(todo)]),
                       todo \ {Min(todo)})

\* The second post-pass loop over the entries todo, in ascending column order.
RECURSIVE TopInOrder(_, _)
TopInOrder(c, todo) ==
    IF todo = {} THEN c
    ELSE TopInOrder(TopNotch(c, Min(todo), top_wall_heights[Min(todo)]), todo \ {Min(todo)})

Returned == pc = "done"

InGrid == (0..(self.width - 1)) \X (0..(self.height - 1))

InteriorColumns == 1..(self.width - 2)

InteriorRows == 1..(self.height - 2)

CellIs(k, kinds) == k \in DOMAIN cells /\ cells[k] \in kinds

\* C1: the returned map is the same whatever order the post-pass iterates the
\* wall-height tables in: for the parameters and draws of this call (the swept
\* cells and the two tables) every iteration order returns the map that the
\* ascending column order returns.
C1_Determinism ==
    Returned =>
        cells = TopInOrder(BottomInOrder(swept, DOMAIN bottom_wall_heights),
                           DOMAIN top_wall_heights)

\* C2: in the returned map every cell with x in {0, width-1} or y in {0, height-1}
\* is Wall.
C2_BorderInvariant ==
    Returned => \A k \in InGrid : IsBorder(k[1], k[2]) => CellIs(k, {Wall})

\* C3 as stated: in the returned map every interior column has a cell that is not
\* Wall among the rows 1 .. height-2.
C3_Traversability ==
    Returned =>
        \A cx \in InteriorColumns : \E cy \in InteriorRows : CellIs(<<cx, cy>>, {Empty, SpawnUp, SpawnDown})

\* C3 amended: when height >= 3, in the returned map every interior column has a
\* cell that is not Wall among the rows 1 .. height-2.
C3_TraversabilityWithInteriorRows ==
    (Returned /\ self.height >= 3) =>
        \A cx \in InteriorColumns : \E cy \in InteriorRows : CellIs(<<cx, cy>>, {Empty, SpawnUp, SpawnDown})

\* A returned map with two or more interior rows and an interior column whose
\* top wall covers every interior row: the forced gap is its one cell that is not Wall.
C3_Witness ==
    /\ Returned
    /\ ~wrapped
    /\ self.height >= 4
    /\ \E cx \in InteriorColumns \cap DOMAIN top_wall_heights :
        /\ top_wall_heights[cx] >= self.height - 2
        /\ Cardinality({cy \in InteriorRows : CellIs(<<cx, cy>>, {Empty})}) = 1
        /\ \A cy \in InteriorRows : CellIs(<<cx, cy>>, {Empty, Wall})

\* C4: the keys of the returned cells are exactly the coordinates of the grid.
C4_Coverage == Returned => DOMAIN cells = InGrid

\* C5: when corridor_width < width - 4 and height > 4, the returned map has a
\* Spawn(Up) cell and a Spawn(Down) cell.
C5_SpawnExistence ==
    (Returned /\ self.corridor_width < self.width - 4 /\ self.height > 4) =>
        /\ \E k \in DOMAIN cells : cells[k] = SpawnUp
        /\ \E k \in DOMAIN cells : cells[k] = SpawnDown

\* C6: get_map_data never panics: no unsigned subtraction goes below zero and the
\* gap row is never drawn from an empty range.
C6_Totality == pc # "panicked" /\ ~wrapped

\* C7: on the default parameters with wall_variance 0.0 the returned map has Wall
\* at (0,0) and at (33,16), a Spawn cell on row 2 and a Spawn cell on row 14.
C7_Scenario ==
    Returned =>
        /\ CellIs(<<0, 0>>, {Wall})
        /\ CellIs(<<33, 16>>, {Wall})
        /\ \E cx \in 0..33 : CellIs(<<cx, 2>>, {SpawnUp, SpawnDown})
        /\ \E cx \in 0..33 : CellIs(<<cx, 14>>, {SpawnUp, SpawnDown})

\* The default map returned, both post-pass loops having placed their spawns.
C7_Witness ==
    /\ Returned
    /\ self = DefaultMap
    /\ DOMAIN top_wall_heights = {3, 7, 11, 15, 19, 23, 27}
    /\ CellIs(<<4, 2>>, {SpawnDown})
    /\ CellIs(<<5, 14>>, {SpawnUp})

\* C8: a sweep step over an interior column without an Empty cell forces exactly
\* one cell (x, gap) of it to Empty, with gap in [1, height-2], and keeps the gap
\* row of the preceding column when that column was blocked too.
C8_GapReuse ==
    [][(pc = "sweep" /\ x' = x + 1 /\ blocked' /\ x > 0 /\ x < self.width - 1) =>
        /\ gap' \in 1..(self.height - 2)
        /\ {k \in DOMAIN cells' : k[1] = x /\ cells'[k] = Empty} = {<<x, gap'>>}
        /\ (blocked => gap' = gap)]_vars

\* C9: assert!(grid_position.in_bounds()) never fails.
C9_InBounds == ~crashed

\* C10: next_direction is never the opposite of direction, and the direction a
\* movement tick adopts is never the opposite of the direction before it.
C10_NoReversal ==
    /\ [](next_direction # opposite(direction))
    /\ [][direction' # opposite(direction)]_vars

\* Heading Up with Left already accepted, a poll of the held Down key was refused.
C10_Witness ==
    /\ polled
    /\ direction = "Up"
    /\ next_direction = "Left"
    /\ keyboard_input = {"Down"}

====
